---- MODULE Spec2Model ----
(***************************************************************************)
(* Model of scraper.py, the osta.ee product category scraper.              *)
(*                                                                         *)
(* One run of the script is a state machine: the __main__ block parses     *)
(* the command line, check_url probes the category URL, and                *)
(* scrape_product_category fetches the entry page, reads the page count,   *)
(* extracts the products of every page and writes them to a JSON file.     *)
(* The web site and the network are the environment: every request draws   *)
(* its response from a small set of pages.                                 *)
(*                                                                         *)
(* Strings the code computes on (command-line arguments, URLs, the text    *)
(* of the page-count node) are sequences of characters or tokens.          *)
(***************************************************************************)
EXTENDS Integers, Sequences, FiniteSets

(* ---------------------------- bounds ---------------------------------- *)

\* Largest page count a page-count node of the site announces.
MaxPages == 2

\* Largest number of offer-thumb figures in a product list.
MaxItems == 2

(* ------------------------- Python values ------------------------------ *)

\* A Python str and Python's None, as the values of a product's fields.
Str(s) == [t |-> "str", v |-> s]
None == [t |-> "NoneType", v |-> ""]

\* json.dump of a field value: a str becomes a JSON string, None becomes null.
JsonValue(x) == IF x.t = "str" THEN [json |-> "string", v |-> x.v]
                ELSE [json |-> "null", v |-> ""]

\* json.dump of one product dictionary.
JsonObject(product) ==
    [title |-> JsonValue(product.title),
     price |-> JsonValue(product.price),
     img_href |-> JsonValue(product.img_href)]

\* json.dump of the product list: a JSON array in list order.
json_dump(product_list) ==
    [i \in 1..Len(product_list) |-> JsonObject(product_list[i])]

(* --------------------------- strings ---------------------------------- *)

Digits == <<"0", "1", "2", "3", "4", "5", "6", "7", "8", "9">>

IsDigit(c) == \E i \in 1..10 : Digits[i] = c

DigitVal(c) == (CHOOSE i \in 1..10 : Digits[i] = c) - 1

RECURSIVE NatStr(_)
\* str(n) for n >= 0.
NatStr(n) == IF n < 10 THEN <<Digits[n + 1]>>
             ELSE NatStr(n \div 10) \o <<Digits[(n % 10) + 1]>>

\* str(n), as the f-string of the page URL formats page_number.
IntStr(n) == IF n < 0 THEN <<"-">> \o NatStr(-n) ELSE NatStr(n)

RECURSIVE DigitsValue(_, _)
DigitsValue(s, acc) == IF s = <<>> THEN acc
                       ELSE DigitsValue(Tail(s), 10 * acc + DigitVal(Head(s)))

\* int(text): an optional sign and at least one digit, else ValueError.
ParseInt(s) ==
    LET body == IF s # <<>> /\ Head(s) \in {"-", "+"} THEN Tail(s) ELSE s
        neg == s # <<>> /\ Head(s) = "-"
    IN IF body # <<>> /\ \A i \in 1..Len(body) : IsDigit(body[i])
       THEN [ok |-> TRUE,
             val |-> IF neg THEN 0 - DigitsValue(body, 0) ELSE DigitsValue(body, 0)]
       ELSE [ok |-> FALSE, val |-> 0]

\* A strip that removes one leading character only.
lstripOnce(s, c) == IF s # <<>> /\ Head(s) = c THEN Tail(s) ELSE s

RECURSIVE lstrip(_, _)
\* s.lstrip(c): s without its leading run of the character c.
lstrip(s, c) == IF s # <<>> /\ Head(s) = c THEN lstrip(Tail(s), c) ELSE s

(* ----------------------- the parsed document ------------------------- *)

\* What find() returned and what the code then reads from it: found is FALSE
\* when find() returned None; val is the value read from a found node (the
\* result of .get(attribute), which is None for a missing attribute, or .text).
Node(val) == [found |-> TRUE, val |-> val]
NoNode == [found |-> FALSE, val |-> None]

\* An image container: figure.offer-thumb__image and its a.lazy anchor.
Figure(a) == [found |-> TRUE, a |-> a]
NoFigure == [found |-> FALSE, a |-> NoNode]

\* A figure.offer-thumb with all three sub-nodes and attributes.
GoodItem == [p |-> Node(Str("t1")), span |-> Node(Str("9.99")),
             figure |-> Figure(Node(Str("img.jpg")))]

\* The offer figures a product list can hold: a complete one, one whose nodes
\* are all there but carry neither the title nor the data-original attribute,
\* and the ones with a single missing sub-node.
Items ==
    { GoodItem,
      [GoodItem EXCEPT !.p = Node(None), !.figure = Figure(Node(None))],
      [GoodItem EXCEPT !.p = NoNode],
      [GoodItem EXCEPT !.span = NoNode],
      [GoodItem EXCEPT !.figure = NoFigure],
      [GoodItem EXCEPT !.figure = Figure(NoNode)] }

ItemLists == UNION { [1..n -> Items] : n \in 0..MaxItems }

\* The span.page-count node of a page: absent, or present with a text.
NoCount == [found |-> FALSE, text |-> <<>>]
Count(text) == [found |-> TRUE, text |-> text]

\* The page-count nodes of category pages: absent, not a number, and the
\* numbers from -1 to MaxPages.
CountNodes ==
    { NoCount, Count(<<"x">>) } \cup { Count(IntStr(n)) : n \in -1..MaxPages }

\* The page-count nodes of the pages after the first: absent, or a count that
\* is not the one the first page of a category with such pages announces.
LaterCountNodes == { NoCount, Count(IntStr(1)) }

\* The parsed pages with the page-count nodes counts: a page has its
\* page-count node, a number of ul.js-main-offers-list elements, and the offer
\* figures of the second of them.
Pages(counts) ==
    { [count |-> c, lists |-> 2, items |-> l] : c \in counts, l \in ItemLists } \cup
    { [count |-> c, lists |-> n, items |-> <<>>] : c \in counts, n \in 0..1 }

\* HTTP status codes a server answers with.
Statuses == {200, 404}

(* ----------------------- results of a call ---------------------------- *)

Ok(v) == [err |-> "None", val |-> v]
Err(e) == [err |-> e, val |-> <<>>]

(* ----------------------- extraction functions ------------------------- *)

\* page_object.findAll("ul", ...)[1].findAll("figure", ...)
get_product_objects_from_page(page_object) ==
    IF page_object.lists < 2 THEN Err("IndexError") ELSE Ok(page_object.items)

\* product_page_object.find("p", ...).get("title")
get_product_title(product_object) ==
    IF product_object.p.found THEN Ok(product_object.p.val) ELSE Err("AttributeError")

\* product_page_object.find("span", ...).text
get_product_price(product_object) ==
    IF product_object.span.found THEN Ok(product_object.span.val) ELSE Err("AttributeError")

\* product_page_object.find("figure", ...).find("a", ...).get("data-original")
get_product_img_href(product_object) ==
    IF ~product_object.figure.found THEN Err("AttributeError")
    ELSE IF ~product_object.figure.a.found THEN Err("AttributeError")
    ELSE Ok(product_object.figure.a.val)

\* The dictionary literal of the loop body: title, price, img_href evaluated
\* in this order, the first failing lookup raising.
Product(product_object) ==
    LET title == get_product_title(product_object)
        price == get_product_price(product_object)
        img_href == get_product_img_href(product_object)
    IN IF title.err # "None" THEN title
       ELSE IF price.err # "None" THEN price
       ELSE IF img_href.err # "None" THEN img_href
       ELSE Ok([title |-> title.val, price |-> price.val, img_href |-> img_href.val])

\* An insertion at the front of the list instead of its end.
ListPrepend(products, product) == <<product>> \o products

\* products.append(product)
ListAppend(products, product) == Append(products, product)

RECURSIVE ProductLoop(_, _)
\* for product_object in product_objects: ... products.append(product)
ProductLoop(product_objects, products) ==
    IF product_objects = <<>> THEN Ok(products)
    ELSE LET product == Product(Head(product_objects))
         IN IF product.err # "None" THEN product
            ELSE ProductLoop(Tail(product_objects), ListAppend(products, product.val))

get_product_list_from_page_object(page_object) ==
    LET product_objects == get_product_objects_from_page(page_object)
    IN IF product_objects.err # "None" THEN product_objects
       ELSE ProductLoop(product_objects.val, <<>>)

\* int(page_object.find("span", {"class": "page-count"}).text)
get_sub_page_count(page_object) ==
    IF ~page_object.count.found THEN Err("AttributeError")
    ELSE LET n == ParseInt(page_object.count.text)
         IN IF n.ok THEN [err |-> "None", val |-> n.val]
            ELSE [err |-> "ValueError", val |-> 0]

\* range(2, page_count): the last page is left out.
PageRangeExclusive(page_count) == [i \in 1..(page_count - 2) |-> i + 1]

\* range(1, page_count + 1): the first page is fetched again as page-1.
PageRangeFromOne(page_count) == [i \in 1..page_count |-> i]

\* range(2, page_count + 2): one page more than the count.
PageRangeShifted(page_count) == [i \in 1..page_count |-> i + 1]

\* range(2, page_count + 1), as the sequence of the values it yields.
PageRange(page_count) == [i \in 1..(page_count - 1) |-> i + 1]

\* A page URL numbered from zero.
PageUrlZeroBased(category_url, page_number) ==
    category_url \o <<"/page-">> \o IntStr(page_number - 1)

\* f"{category_url}/page-{page_number}"
PageUrl(category_url, page_number) == category_url \o <<"/page-">> \o IntStr(page_number)

\* An opener that hands back every response, whatever its status.
NeverRaisesHTTPError(status) == FALSE

\* urllib's response processing: a status outside 2xx raises HTTPError.
RaisesHTTPError(status) == ~(200 <= status /\ status < 300)

(* --------------------------- environment ------------------------------ *)

\* A name that is not bound yet, or a body that never arrived.
UnboundPage == [count |-> NoCount, lists |-> 0, items |-> <<>>]

\* What one HTTP request for a page comes back with: a network-level failure
\* (raised), or a response with a status and a body, here already parsed.
Responses(counts) ==
    { [raised |-> "None", status |-> st, page |-> pg] : st \in Statuses, pg \in Pages(counts) } \cup
    { [raised |-> "ConnectionError", status |-> 0, page |-> UnboundPage] }

\* What the pre-flight request comes back with: no body is read.
UrlopenOutcomes ==
    { [raised |-> "None", status |-> st] : st \in Statuses } \cup
    { [raised |-> "URLError", status |-> 0] }

\* urllib.request.urlopen(url)
urlopen(outcome) ==
    IF outcome.raised # "None" THEN Err(outcome.raised)
    ELSE IF RaisesHTTPError(outcome.status) THEN Err("HTTPError")
    ELSE [err |-> "None", val |-> outcome.status]

\* A fetch that calls raise_for_status() on the response.
get_page_object_raise_for_status(response) ==
    IF response.raised # "None" THEN Err(response.raised)
    ELSE IF ~(200 <= response.status /\ response.status < 300) THEN Err("HTTPError")
    ELSE Ok(response.page)

\* requests.get(url) followed by BeautifulSoup(request.text, "html.parser"):
\* the status of the response is not looked at.
get_page_object_from_url(response) ==
    IF response.raised # "None" THEN Err(response.raised) ELSE Ok(response.page)

\* The command lines the script is started with (sys.argv[1:]).
CommandLines ==
    { <<>>, << <<>> >>, << <<"/">> >>, << <<"/", "/">> >>,
      << <<"/", "c">> >>, << <<"c">>, <<"out.json">> >> }

BaseUrl == <<"https://www.osta.ee/kategooria/">>
DefaultFilename == <<"products.json">>
Filenames == { DefaultFilename, <<"out.json">> }

\* A file: absent, or present with a JSON array as content.
NoFile == [exists |-> FALSE, data |-> <<>>]
File(data) == [exists |-> TRUE, data |-> data]

\* The files before the run: products.json left by an earlier run, no out.json.
InitialFs ==
    [f \in Filenames |->
        IF f = DefaultFilename
        THEN File(json_dump(<< [title |-> Str("old"), price |-> Str("1.00"), img_href |-> Str("old.jpg")] >>))
        ELSE NoFile]

(* ------------------------------ state --------------------------------- *)

VARIABLES
    pc,                 \* where the run is
    argv,               \* sys.argv[1:]
    category,           \* __main__: category
    output_filename,    \* __main__: output_filename
    full_url,           \* __main__: full_url
    stdout,             \* the messages printed so far
    exit_code,          \* the exit code of the process, -1 while it runs
    error,              \* the exception that ended the process, "None" if none
    fs,                 \* the files
    urlopen_calls,      \* the urlopen calls made, in order
    requests_get_calls, \* the requests.get calls made, in order
    entry_page_object,  \* scrape_product_category: entry_page_object
    page_count,         \* scrape_product_category: page_count
    scraped_products,   \* scrape_product_category: scraped_products
    page_iter,          \* the elements range(2, page_count + 1) has yet to yield
    page_number,        \* scrape_product_category: page_number
    url,                \* scrape_product_category: url
    page_object         \* the page object of the current loop iteration

main_vars == <<argv, category, output_filename, full_url>>
locals == <<entry_page_object, page_count, scraped_products, page_iter, page_number, url, page_object>>
logs == <<urlopen_calls, requests_get_calls>>
vars == <<pc, main_vars, stdout, exit_code, error, fs, logs, locals>>

LocalsUnbound ==
    /\ entry_page_object' = UnboundPage
    /\ page_count' = 0
    /\ scraped_products' = <<>>
    /\ page_iter' = <<>>
    /\ page_number' = 0
    /\ url' = <<>>
    /\ page_object' = UnboundPage

Init ==
    /\ pc = "main"
    /\ argv \in CommandLines
    /\ category = <<>>
    /\ output_filename = DefaultFilename
    /\ full_url = <<>>
    /\ stdout = <<>>
    /\ exit_code = -1
    /\ error = "None"
    /\ fs = InitialFs
    /\ urlopen_calls = <<>>
    /\ requests_get_calls = <<>>
    /\ entry_page_object = UnboundPage
    /\ page_count = 0
    /\ scraped_products = <<>>
    /\ page_iter = <<>>
    /\ page_number = 0
    /\ url = <<>>
    /\ page_object = UnboundPage

(* ----------------------------- actions -------------------------------- *)

\* open(filename, 'w') and json.dump(product_list, file, indent=4): the file is
\* created or truncated and holds the JSON array of the list.
WriteFile(files, product_list, filename) ==
    [files EXCEPT ![filename] = File(json_dump(product_list))]

\* An abort that saves what was scraped so far before the process ends.
RaiseSavingPartial(e) ==
    /\ pc' = "crashed"
    /\ error' = e
    /\ exit_code' = 1
    /\ fs' = WriteFile(fs, scraped_products, output_filename)
    /\ LocalsUnbound

\* An exception nothing catches: the interpreter prints the traceback and
\* exits with code 1; the frames and their names are gone, no file is touched.
Raise(e) ==
    /\ pc' = "crashed"
    /\ error' = e
    /\ exit_code' = 1
    /\ fs' = fs
    /\ LocalsUnbound

\* sys.exit() with no argument: SystemExit, exit code 0.
SysExit ==
    /\ pc' = "exited"
    /\ error' = "SystemExit"
    /\ exit_code' = 0

\* The entry of a requests.get call in the log.
Call(u, response, products) ==
    [url |-> u, raised |-> response.raised, status |-> response.status,
     offers |-> IF products.err = "None" THEN Len(products.val) ELSE 0]

\* The __main__ block up to the call of check_url (lines 164-178).
main ==
    /\ pc = "main"
    /\ LET cat == IF Len(argv) >= 1 THEN lstrip(argv[1], "/") ELSE <<>>
           out == IF Len(argv) >= 2 THEN argv[2] ELSE DefaultFilename
       IN /\ category' = cat
          /\ output_filename' = out
          /\ IF cat = <<>>
             THEN /\ stdout' = Append(stdout, "Scraping failed, please enter a valid category")
                  /\ full_url' = full_url
                  /\ pc' = "done"
                  /\ exit_code' = 0
             ELSE /\ full_url' = BaseUrl \o cat
                  /\ stdout' = stdout
                  /\ pc' = "check_url"
                  /\ exit_code' = exit_code
    /\ UNCHANGED <<argv, error, fs, logs, locals>>

\* check_url(full_url) (lines 151-161).
check_url ==
    /\ pc = "check_url"
    /\ \E outcome \in UrlopenOutcomes :
        LET connection == urlopen(outcome)
        IN /\ urlopen_calls' = Append(urlopen_calls, [url |-> full_url, raised |-> outcome.raised, status |-> outcome.status])
           /\ CASE connection.err = "None" ->
                    /\ stdout' = stdout \o <<"Checking URL", "Server responded with status code">>
                    /\ pc' = "fetch_entry"
                    /\ UNCHANGED <<exit_code, error, fs, locals>>
                [] connection.err = "HTTPError" ->
                    /\ stdout' = stdout \o <<"Checking URL", "URL checking failed", "This is most likely due to">>
                    /\ SysExit
                    /\ UNCHANGED <<fs, locals>>
                [] OTHER ->
                    /\ stdout' = Append(stdout, "Checking URL")
                    /\ Raise(connection.err)
    /\ UNCHANGED <<main_vars, requests_get_calls>>

\* scrape_product_category, lines 33-35: the entry page is fetched.
FetchEntryPage ==
    /\ pc = "fetch_entry"
    /\ \E response \in Responses(CountNodes) :
        LET page == get_page_object_from_url(response)
        IN /\ requests_get_calls' = Append(requests_get_calls,
                    Call(full_url, response, IF page.err = "None" THEN get_product_objects_from_page(page.val) ELSE page))
           /\ stdout' = Append(stdout, "Scraping category at url")
           /\ IF page.err = "None"
              THEN /\ entry_page_object' = page.val
                   /\ pc' = "page_count"
                   /\ UNCHANGED <<exit_code, error, fs, page_count, scraped_products, page_iter, page_number, url, page_object>>
              ELSE Raise(page.err)
    /\ UNCHANGED <<main_vars, urlopen_calls>>

\* scrape_product_category, lines 36-41: the page count is read from the entry page.
ReadPageCount ==
    /\ pc = "page_count"
    /\ LET count == get_sub_page_count(entry_page_object)
       IN IF count.err = "None"
          THEN /\ page_count' = count.val
               /\ stdout' = stdout \o <<"Category has roughly", "Scraping page">>
               /\ pc' = "extract_entry"
               /\ UNCHANGED <<exit_code, error, fs, entry_page_object, scraped_products, page_iter, page_number, url, page_object>>
          ELSE /\ Raise(count.err)
               /\ stdout' = stdout
    /\ UNCHANGED <<main_vars, logs>>

\* scrape_product_category, lines 43-45: the products of the entry page start
\* the list, and the loop over range(2, page_count + 1) is entered.
ScrapeEntryPage ==
    /\ pc = "extract_entry"
    /\ LET products == get_product_list_from_page_object(entry_page_object)
       IN IF products.err = "None"
          THEN /\ scraped_products' = products.val
               /\ page_iter' = PageRange(page_count)
               /\ pc' = "loop"
               /\ UNCHANGED <<exit_code, error, fs, entry_page_object, page_count, page_number, url, page_object>>
          ELSE Raise(products.err)
    /\ UNCHANGED <<main_vars, stdout, logs>>

\* scrape_product_category, lines 45-48: one iteration of the loop.
ScrapeNextPage ==
    /\ pc = "loop"
    /\ page_iter # <<>>
    /\ \E response \in Responses(LaterCountNodes) :
        LET n == Head(page_iter)
            u == PageUrl(full_url, n)
            page == get_page_object_from_url(response)
            products == IF page.err = "None" THEN get_product_list_from_page_object(page.val) ELSE page
        IN /\ requests_get_calls' = Append(requests_get_calls,
                    Call(u, response, IF page.err = "None" THEN get_product_objects_from_page(page.val) ELSE page))
           /\ stdout' = Append(stdout, "Scraping page")
           /\ IF products.err = "None"
              THEN /\ page_number' = n
                   /\ page_iter' = Tail(page_iter)
                   /\ url' = u
                   /\ page_object' = page.val
                   /\ scraped_products' = scraped_products \o products.val
                   /\ UNCHANGED <<pc, exit_code, error, fs, entry_page_object, page_count>>
              ELSE Raise(products.err)
    /\ UNCHANGED <<main_vars, urlopen_calls>>

\* scrape_product_category, lines 45 and 50-51: the range is exhausted.
FinishLoop ==
    /\ pc = "loop"
    /\ page_iter = <<>>
    /\ stdout' = stdout \o <<"Scraping done, products scraped", "Writing results to">>
    /\ page_object' = UnboundPage
    /\ pc' = "write"
    /\ UNCHANGED <<main_vars, exit_code, error, fs, logs, entry_page_object, page_count, scraped_products, page_iter, page_number, url>>

\* write_product_list_to_json_file(scraped_products, filename) and the return
\* to the end of the script (lines 53-55).
write_product_list_to_json_file ==
    /\ pc = "write"
    /\ fs' = WriteFile(fs, scraped_products, output_filename)
    /\ stdout' = Append(stdout, "Scrape results successfully written to file.")
    /\ pc' = "done"
    /\ exit_code' = 0
    /\ UNCHANGED <<main_vars, error, logs, locals>>

Next ==
    \/ main
    \/ check_url
    \/ FetchEntryPage
    \/ ReadPageCount
    \/ ScrapeEntryPage
    \/ ScrapeNextPage
    \/ FinishLoop
    \/ write_product_list_to_json_file

Spec == Init /\ [][Next]_vars

(* ------------------------ vocabulary of the claims --------------------- *)

\* The record an offer figure yields when all its nodes are found: the title
\* attribute, the price text and the data-original attribute, as read.
RecordOf(item) ==
    [title |-> item.p.val, price |-> item.span.val, img_href |-> item.figure.a.val]

\* The records of a list of offer figures, in the order of the list.
RecordsOf(items) == [i \in 1..Len(items) |-> RecordOf(items[i])]

\* The run has gone through scrape_product_category to the end of the script.
Completed == pc = "done" /\ full_url # <<>>

\* The content of the output file of this run.
OutputData == fs[output_filename].data

\* A response with an HTTP status outside 2xx.
IsErrorStatus(call) == call.raised = "None" /\ (call.status < 200 \/ call.status >= 300)

\* s is one of the messages printed.
Printed(s) == \E i \in 1..Len(stdout) : stdout[i] = s

Max(a, b) == IF a >= b THEN a ELSE b

\* The category argument is missing or consists of slashes only.
NoCategoryGiven ==
    \/ Len(argv) = 0
    \/ \A i \in 1..Len(argv[1]) : argv[1][i] = "/"

\* The page has its two product lists and every offer figure has its title
\* node, its price node, its image container and the anchor in it.
BodyWellFormed(page) ==
    /\ page.lists >= 2
    /\ \A i \in 1..Len(page.items) :
        /\ page.items[i].p.found
        /\ page.items[i].span.found
        /\ page.items[i].figure.found
        /\ page.items[i].figure.a.found

\* The page has a page-count node whose text is an integer.
CountReadable(page) == page.count.found /\ ParseInt(page.count.text).ok

(* ------------------------------ claims -------------------------------- *)

\* C1: when fetching or extracting a page fails, the run aborts there: it takes
\* no further step, write_product_list_to_json_file is never called, the
\* files keep exactly the content they had before the run and the records
\* accumulated from the earlier pages are dropped.
C1_AbortWritesNothing ==
    /\ [](pc = "crashed" =>
            /\ fs = InitialFs
            /\ scraped_products = <<>>
            /\ exit_code = 1
            /\ ~Printed("Writing results to")
            /\ ~Printed("Scrape results successfully written to file.")
            /\ \A k \in 1..Len(requests_get_calls) :
                    requests_get_calls[k].raised # "None" => k = Len(requests_get_calls))
    /\ [][pc = "crashed" => UNCHANGED vars]_vars

\* C1 witness: page 2 fails after page 1 yielded records, and the output file
\* of an earlier run is still what it was.
C1_Witness ==
    /\ pc = "crashed"
    /\ Len(requests_get_calls) = 2
    /\ requests_get_calls[1].offers > 0
    /\ fs[output_filename] = InitialFs[output_filename]
    /\ InitialFs[output_filename].exists

\* C2: when the pre-flight request gets an HTTP error status, the process
\* exits inside check_url: no listing page is fetched and no file is written.
C2_PreflightErrorExits ==
    (\E i \in 1..Len(urlopen_calls) : IsErrorStatus(urlopen_calls[i])) =>
        /\ pc = "exited"
        /\ error = "SystemExit"
        /\ requests_get_calls = <<>>
        /\ fs = InitialFs
        /\ ~Printed("Scraping category at url")

\* C2 witness: the category URL answered 404 and the process has exited.
C2_Witness ==
    /\ pc = "exited"
    /\ Len(urlopen_calls) = 1
    /\ urlopen_calls[1].status = 404
    /\ Printed("URL checking failed")

\* C3: with page count P >= 1, when every fetched page yields exactly I offers
\* the list handed to write_product_list_to_json_file, and the array in the
\* file, has exactly P * I records.
C3_LengthIsPagesTimesItems ==
    (pc \in {"write", "done"} /\ full_url # <<>> /\ page_count >= 1) =>
        \A I \in 0..MaxItems :
            (\A k \in 1..Len(requests_get_calls) : requests_get_calls[k].offers = I) =>
                /\ Len(scraped_products) = page_count * I
                /\ (pc = "done" => Len(OutputData) = page_count * I)

\* C3 witness: two pages of two offers each were written, four records.
C3_Witness ==
    /\ Completed
    /\ page_count = 2
    /\ \A k \in 1..Len(requests_get_calls) : requests_get_calls[k].offers = 2
    /\ Len(OutputData) = 4

\* C4: the list only grows by appending: each step that changes it appends the
\* records of the page just extracted, in the order of that page's offers,
\* duplicates included, and the file holds the list in that order.
C4_AppendInPageOrder ==
    /\ [][(scraped_products' # scraped_products /\ pc' # "crashed") =>
            LET page == IF pc = "extract_entry" THEN entry_page_object ELSE page_object'
            IN scraped_products' = scraped_products \o RecordsOf(page.items)]_vars
    /\ [](Completed => OutputData = json_dump(scraped_products))

\* C4 witness: a run is over whose first page held two different offers and
\* whose second page repeated the first of them.
C4_Witness ==
    /\ Completed
    /\ page_count = 2
    /\ requests_get_calls[1].offers = 2
    /\ Len(scraped_products) >= 3
    /\ scraped_products[1] # scraped_products[2]
    /\ scraped_products[3] = scraped_products[1]

\* C5: with a page count of 1 there is exactly one listing-page fetch, of the
\* base URL without suffix, no '/page-N' URL is built, and the file holds
\* exactly the records of that page.
C5_SinglePage ==
    (page_count = 1 /\ pc \in {"extract_entry", "loop", "write", "done"}) =>
        /\ Len(requests_get_calls) = 1
        /\ requests_get_calls[1].url = BaseUrl \o category
        /\ \A i \in 1..Len(requests_get_calls[1].url) : requests_get_calls[1].url[i] # "/page-"
        /\ url = <<>>
        /\ (pc = "done" => OutputData = json_dump(RecordsOf(entry_page_object.items)))

\* C5 witness: a run with page count 1 has written the records of its page.
C5_Witness ==
    /\ Completed
    /\ page_count = 1
    /\ Len(OutputData) >= 1

\* C6: in a successful run with page count P >= 1 the listing-page fetches are
\* the base URL and then baseUrl + '/page-' + i for i = 2..P, each once and in
\* this order, and page_count is assigned only where the entry page's count
\* is read.
C6_FetchSequence ==
    /\ []((Completed /\ page_count >= 1) =>
            /\ Len(requests_get_calls) = page_count
            /\ \A i \in 1..Len(requests_get_calls) :
                requests_get_calls[i].url =
                    IF i = 1 THEN BaseUrl \o category
                    ELSE BaseUrl \o category \o <<"/page-">> \o IntStr(i))
    /\ [][(page_count' # page_count /\ pc' # "crashed") => pc = "page_count"]_vars

\* C6 witness: the last page of a two-page category carried a page count that
\* is not the one read from the entry page.
C6_Witness ==
    /\ pc = "loop"
    /\ page_iter = <<>>
    /\ page_count = 2
    /\ Len(requests_get_calls) = 2
    /\ page_object.count.found
    /\ page_object.count.text # IntStr(page_count)

\* C7: without a category argument, or with one that is empty once its leading
\* slashes are stripped, the script prints the usage hint and nothing else,
\* calls neither check_url nor a page fetch, touches no file and ends with
\* exit code 0.
C7_NoCategoryOnlyUsage ==
    (NoCategoryGiven /\ pc # "main") =>
        /\ pc = "done"
        /\ stdout = <<"Scraping failed, please enter a valid category">>
        /\ urlopen_calls = <<>>
        /\ requests_get_calls = <<>>
        /\ fs = InitialFs
        /\ exit_code = 0
        /\ error = "None"

\* C7 witness: the run given "//" as category has ended.
C7_Witness ==
    /\ pc = "done"
    /\ Len(argv) = 1
    /\ argv[1] = <<"/", "/">>

\* C8: every record that reaches the output file has a string as title, as
\* price and as img_href, never null.
C8_OutputFieldsAreStrings ==
    Completed =>
        \A i \in 1..Len(OutputData) :
            /\ OutputData[i].title.json = "string"
            /\ OutputData[i].price.json = "string"
            /\ OutputData[i].img_href.json = "string"

\* C9: a listing-page response with a status outside 2xx does not abort the
\* run by itself: a run that aborts on such a page aborts on a failed lookup
\* in its body (a missing node, a missing list, a count that is no number),
\* and an entry page that came with such a status aborts the run exactly when
\* its page count cannot be read or its product list cannot be extracted.
C9_StatusDoesNotAbort ==
    /\ []((pc = "crashed" /\ requests_get_calls # <<>>
            /\ IsErrorStatus(requests_get_calls[Len(requests_get_calls)])) =>
            error \in {"AttributeError", "IndexError", "ValueError"})
    /\ [][(pc \in {"page_count", "extract_entry"}
            /\ IsErrorStatus(requests_get_calls[Len(requests_get_calls)])) =>
            (pc' = "crashed" <=>
                IF pc = "page_count" THEN ~CountReadable(entry_page_object)
                ELSE ~BodyWellFormed(entry_page_object))]_vars

\* C9 witness: both pages of a category came with status 404, their offers
\* were extracted and written.
C9_Witness ==
    /\ Completed
    /\ Len(requests_get_calls) = 2
    /\ \A k \in 1..2 : requests_get_calls[k].status = 404 /\ requests_get_calls[k].offers > 0
    /\ Len(OutputData) = requests_get_calls[1].offers + requests_get_calls[2].offers

\* C10: a successful run makes Max(1, P) listing-page fetches: with a page
\* count of 0 or less the loop body never runs, and the records of the entry
\* page are still written.
C10_FetchesAreMaxOneP ==
    Completed =>
        /\ Len(requests_get_calls) = Max(1, page_count)
        /\ (page_count <= 0 =>
                /\ url = <<>>
                /\ OutputData = json_dump(RecordsOf(entry_page_object.items)))

\* C10 witness: a run whose entry page announced -1 pages wrote that page's
\* records.
C10_Witness ==
    /\ Completed
    /\ page_count < 0
    /\ Len(requests_get_calls) = 1
    /\ Len(OutputData) >= 1

====
